---- MODULE Spec2Model ----
(***************************************************************************)
(* One run of check_marathon_services_replication.main(): the Smartstack   *)
(* replication snapshot is loaded for every discover location type in use, *)
(* then every service instance of the cluster is checked and an event is   *)
(* sent to Sensu for it.                                                   *)
(***************************************************************************)
EXTENDS Integers, Sequences, FiniteSets, TLC

(* ------------------------------ bounds --------------------------------- *)

\* Number of service instances get_marathon_services_for_cluster returns.
NumInstances == 2

\* Largest number of distinct attribute values (locations) in the cluster,
\* counted over all location types that are queried.
MaxLocations == 3

Instances == 1..NumInstances

LocationTypes == {"region", "habitat"}

\* --critical PERCENTAGE, documented as an int from 0 to 100.
Thresholds == {0, 50, 58, 100}

\* Values get_expected_instance_count_for_namespace can return.
ExpectedCounts == {0, 4, 10, 50}

\* Numbers of tasks get_running_tasks_from_active_frameworks can return.
RunningCounts == {1, 29}

(* ----------------- Python float arithmetic (line 180) ------------------ *)
\* An IEEE-754 double m * 2^(exp-52), its 53-bit significand m kept as mixed
\* radix digits <<top, d1, d2, d3>> = top*2^52 + d1*2^34 + d2*2^16 + d3.

B18 == 262144
B16 == 65536

\* m * k + inc on the digits, carries propagated into top.
Scale(m, k, inc) ==
    LET s3 == m[4] * k + inc
        s2 == m[3] * k + (s3 \div B16)
        s1 == m[2] * k + (s2 \div B18)
    IN  <<m[1] * k + (s1 \div B18), s1 % B18, s2 % B18, s3 % B16>>

\* Scale n/e by powers of two until 1 <= np/ep < 2.
RECURSIVE Normalise(_, _, _)
Normalise(np, ep, ex) ==
    IF np < ep THEN Normalise(2 * np, ep, ex - 1)
    ELSE IF np >= 2 * ep THEN Normalise(np, 2 * ep, ex + 1)
    ELSE <<np, ep, ex>>

\* num / float(den) for num > 0, den > 0: the quotient rounded to nearest,
\* ties to even, on 53 bits.
FloatDiv(num, den) ==
    LET nz == Normalise(num, den, 0)
        ep == nz[2]
        r0 == nz[1] - ep
        d1 == (r0 * B18) \div ep
        r1 == (r0 * B18) % ep
        d2 == (r1 * B18) \div ep
        r2 == (r1 * B18) % ep
        d3 == (r2 * B16) \div ep
        r3 == (r2 * B16) % ep
        up == (2 * r3 > ep) \/ (2 * r3 = ep /\ d3 % 2 = 1)
    IN  [exp |-> nz[3], mant |-> Scale(<<1, d1, d2, d3>>, 1, IF up THEN 1 ELSE 0)]

\* f * 100: the exact product has 59 or 60 bits and is rounded back to 53.
FloatMul100(f) ==
    LET p == Scale(f.mant, 100, 0)
        g == IF p[1] < 128 THEN 64 ELSE 128
        low == p[4] % g
        odd == (p[4] \div g) % 2 = 1
        up == (2 * low > g) \/ (2 * low = g /\ odd)
        kept == <<p[1], p[2], p[3], p[4] - low>>
    IN  [exp |-> f.exp, mant |-> Scale(kept, 1, IF up THEN g ELSE 0)]

\* A float as [whole |-> its floor, frac |-> whether a fraction is left].
FloatParts(f) ==
    LET m == f.mant
    IN  IF f.exp <= 0
        THEN LET d == 2 ^ (0 - f.exp)
             IN  [whole |-> m[1] \div d,
                  frac |-> (m[1] % d # 0) \/ m[2] # 0 \/ m[3] # 0 \/ m[4] # 0]
        ELSE LET s == 2 ^ (18 - f.exp)
             IN  [whole |-> m[1] * (2 ^ f.exp) + (m[2] \div s),
                  frac |-> (m[2] % s # 0) \/ m[3] # 0 \/ m[4] # 0]

\* (num_available / float(expected_count)) * 100
FloatRatio(num_available, expected_count) ==
    IF num_available = 0
    THEN [whole |-> 0, frac |-> FALSE]
    ELSE FloatParts(FloatMul100(FloatDiv(num_available, expected_count)))

\* ratio < crit_threshold, crit_threshold an int: decided by the floor.
RatioBelow(ratio, crit_threshold) == ratio.whole < crit_threshold

(* --------------------------- is_under_replicated ----------------------- *)

\* Ratio with the guard of line 177 giving 0 instead of 100.
RatioZeroWhenNoneExpected(num_available, expected_count) ==
    IF expected_count = 0
    THEN [whole |-> 0, frac |-> FALSE]
    ELSE FloatRatio(num_available, expected_count)

Ratio(num_available, expected_count) ==
    IF expected_count = 0
    THEN [whole |-> 100, frac |-> FALSE]
    ELSE FloatRatio(num_available, expected_count)

is_under_replicated(num_available, expected_count, crit_threshold) ==
    LET ratio == Ratio(num_available, expected_count)
    IN  <<RatioBelow(ratio, crit_threshold), ratio>>

(* ------------------------------ the state ------------------------------ *)

VARIABLES
    crit_threshold,               \* args.crit
    discover,                     \* get_discover() of every service instance
    pc,                           \* where main() is
    collect_i,                    \* position of the loop of line 271
    location_types,               \* the set built by line 275
    types_left,                   \* location types the loop of line 277 has yet to visit
    attribute,                    \* argument of the running get_smartstack_replication_for_attribute
    unique_values,                \* number of attribute values get_mesos_slaves_grouped_by_attribute found
    replication_info,             \* the dictionary line 299 fills, one entry per value
    smartstack_replication_info,  \* the snapshot: location type -> location -> full name -> backends
    calls,                        \* get_smartstack_replication_for_attribute calls, per location type
    failed,                       \* the <<attribute, value>> whose Synapse query raised, if any
    check_i,                      \* position of the loop of line 318
    cur                           \* what the check of the last instance read, computed and sent

vars == <<crit_threshold, discover, pc, collect_i, location_types, types_left,
          attribute, unique_values, replication_info, smartstack_replication_info,
          calls, failed, check_i, cur>>

\* A dictionary with no key.
EmptyDict == [k \in {} |-> 0]

\* What get_replication_for_services can answer for the namespaces: nothing,
\* three backends each, or 29 backends for the first and one for the others.
ReplInfos ==
    { EmptyDict,
      [i \in Instances |-> 3],
      [i \in Instances |-> IF i = 1 THEN 29 ELSE 1] }

\* Outcomes of get_expected_instance_count_for_namespace: the exception of
\* line 240, the None of line 243, or a count.
ExpectedOutcomes == {"NoDeploymentsAvailable", "None", "count"}

\* dict.get(key, default)
Get(dict, key, default) == IF key \in DOMAIN dict THEN dict[key] ELSE default

(* ------------------------------ send_event ----------------------------- *)

\* send_event without the return of line 53.
send_event_without_team_check(team) == 1

\* Number of pysensu_yelp.send_event calls send_event makes: none when
\* get_team gives nothing (lines 51-53).
send_event(team) == IF ~team THEN 0 ELSE 1

(* -------------------------- add_context_to_event ----------------------- *)

\* Number of get_context calls of one add_context_to_event.
add_context_to_event == 1

(* ------------------------ the result of one check ---------------------- *)

\* Nothing read, nothing computed, nothing sent.
NoResult ==
    [path |-> "none", status |-> "none", output |-> "none", events |-> 0,
     context_calls |-> 0, divisions |-> 0, ratio_calls |-> 0, ratios |-> <<>>,
     info_reads |-> 0, task_reads |-> 0, namespace_reads |-> 0]

(* --------------- check_smartstack_replication_for_instance ------------- *)

\* Lines 144-158: the division of line 144 and one is_under_replicated call
\* per location; <<under_replicated, ratio>> of every location.
PerLocation(full_name, info, crit_threshold_, expected_count) ==
    LET expected_count_per_location == expected_count \div Len(info)
    IN  [l \in 1..Len(info) |->
            is_under_replicated(Get(info[l], full_name, 0),
                                expected_count_per_location, crit_threshold_)]

\* any(under_replication_per_location)
AnyUnder(per_location) == \E l \in 1..Len(per_location) : per_location[l][1]

\* The test of line 137 never taken.
NeverNoReplicationInfo(info) == FALSE

\* Line 137: len(smartstack_replication_info) == 0
NoReplicationInfo(info) == Len(info) = 0

\* Lines 134-167, for an instance announced under its own name.
SmartstackVerdict(full_name, info, crit_threshold_, expected_count, team) ==
    IF NoReplicationInfo(info)
    THEN [NoResult EXCEPT
             !.path = "smartstack", !.status = "CRITICAL", !.output = "no_info",
             !.context_calls = add_context_to_event,
             !.info_reads = 1, !.namespace_reads = 1,
             !.events = send_event(team)]
    ELSE LET per_location == PerLocation(full_name, info, crit_threshold_, expected_count)
             critical == AnyUnder(per_location)
         IN  [NoResult EXCEPT
                 !.path = "smartstack",
                 !.status = IF critical THEN "CRITICAL" ELSE "OK",
                 !.output = "per_location",
                 !.context_calls = IF critical THEN add_context_to_event ELSE 0,
                 !.divisions = 1,
                 !.ratio_calls = Len(info),
                 !.ratios = [l \in 1..Len(info) |-> per_location[l][2].whole],
                 !.info_reads = 2 + Len(info), !.namespace_reads = 1,
                 !.events = send_event(team)]

\* Lines 129-133: an instance announced under another namespace is not checked.
check_smartstack_replication_for_instance(full_name, info, crit_threshold_, expected_count, aliased, team) ==
    IF aliased
    THEN [NoResult EXCEPT !.path = "smartstack_skipped", !.namespace_reads = 1]
    ELSE SmartstackVerdict(full_name, info, crit_threshold_, expected_count, team)

(* -------------------- send_event_if_under_replication ------------------ *)

send_event_if_under_replication(crit_threshold_, expected_count, num_available, team) ==
    LET r == is_under_replicated(num_available, expected_count, crit_threshold_)
    IN  [NoResult EXCEPT
            !.path = "mesos",
            !.status = IF r[1] THEN "CRITICAL" ELSE "OK",
            !.output = "summary",
            !.ratio_calls = 1,
            !.ratios = <<r[2].whole>>,
            !.events = send_event(team)]

(* ------------------ check_mesos_replication_for_service ---------------- *)

check_mesos_replication_for_service(crit_threshold_, expected_count, running, team) ==
    [send_event_if_under_replication(crit_threshold_, expected_count, running, team)
        EXCEPT !.task_reads = 1]

(* ------------------------ check_service_replication -------------------- *)

\* Lines 238-244 without the test of line 243.
UndeterminableOnlyByException(outcome) == outcome = "NoDeploymentsAvailable"

\* Lines 238-244: no deployments.json, or no count: the instance is skipped.
Undeterminable(outcome) == outcome \in {"NoDeploymentsAvailable", "None"}

check_service_replication(full_name, info, crit_threshold_, outcome, expected_count, proxy_port, aliased, team, running) ==
    IF Undeterminable(outcome)
    THEN [NoResult EXCEPT !.path = "skipped"]
    ELSE IF proxy_port
         THEN check_smartstack_replication_for_instance(
                  full_name, info, crit_threshold_, expected_count, aliased, team)
         ELSE check_mesos_replication_for_service(
                  crit_threshold_, expected_count, running, team)

(* ------------------- load_smartstack_info_for_services ----------------- *)

\* The loop of line 277 visiting every location type there is.
EveryLocationType(types) == LocationTypes

\* The location types the loop of line 277 visits: the set of line 270.
TypesToQuery(types) == types

\* dict[key] = value
Put(dict, key, value) ==
    [k \in DOMAIN dict \cup {key} |-> IF k = key THEN value ELSE dict[k]]

\* Number of locations of the location types loaded so far.
RECURSIVE LocationsIn(_, _)
LocationsIn(info, types) ==
    IF types = {} THEN 0
    ELSE LET t == CHOOSE x \in types : TRUE
         IN  Len(info[t]) + LocationsIn(info, types \ {t})

\* Lines 271-275: one turn of the loop that collects the discover location types.
CollectLocationType ==
    /\ pc = "load_types"
    /\ collect_i <= NumInstances
    /\ location_types' = location_types \cup {discover[collect_i]}
    /\ collect_i' = collect_i + 1
    /\ UNCHANGED <<crit_threshold, discover, pc, types_left, attribute, unique_values,
                   replication_info, smartstack_replication_info, calls, failed,
                   check_i, cur>>

\* Line 277: the loop over the collected location types begins.
StartAttributes ==
    /\ pc = "load_types"
    /\ collect_i > NumInstances
    /\ types_left' = TypesToQuery(location_types)
    /\ pc' = "load_attributes"
    /\ UNCHANGED <<crit_threshold, discover, collect_i, location_types, attribute,
                   unique_values, replication_info, smartstack_replication_info,
                   calls, failed, check_i, cur>>

(* ----------------- get_smartstack_replication_for_attribute ------------ *)

\* Lines 278, 292-293: the call for one location type; the slaves are grouped
\* by the values of the attribute, of which there may be none.
GetReplicationForAttribute ==
    /\ pc = "load_attributes"
    /\ \E t \in types_left :
         \E n \in 0..(MaxLocations - LocationsIn(smartstack_replication_info,
                                                 DOMAIN smartstack_replication_info)) :
            /\ attribute' = t
            /\ unique_values' = n
            /\ types_left' = types_left \ {t}
            /\ calls' = [calls EXCEPT ![t] = @ + 1]
    /\ replication_info' = <<>>
    /\ pc' = "query"
    /\ UNCHANGED <<crit_threshold, discover, collect_i, location_types,
                   smartstack_replication_info, failed, check_i, cur>>

\* Lines 295-299: Synapse on the first host of the next value answers.  The
\* values are visited in the order of the dictionary, here 1, 2, ...
QuerySynapse ==
    /\ pc = "query"
    /\ Len(replication_info) < unique_values
    /\ \E repl_info \in ReplInfos :
         replication_info' = Append(replication_info, repl_info)
    /\ UNCHANGED <<crit_threshold, discover, pc, collect_i, location_types, types_left,
                   attribute, unique_values, smartstack_replication_info, calls,
                   failed, check_i, cur>>

\* replication_utils.get_replication_for_services reports a query that failed
\* by raising.
QueryMayRaise == TRUE

\* Line 298: the query raises; nothing up to main() catches the exception.
QuerySynapseRaises ==
    /\ QueryMayRaise
    /\ pc = "query"
    /\ Len(replication_info) < unique_values
    /\ failed' = <<attribute, Len(replication_info) + 1>>
    /\ pc' = "aborted"
    /\ UNCHANGED <<crit_threshold, discover, collect_i, location_types, types_left,
                   attribute, unique_values, replication_info,
                   smartstack_replication_info, calls, check_i, cur>>

\* Lines 301 and 278: the dictionary of the attribute is stored in the snapshot.
ReturnReplication ==
    /\ pc = "query"
    /\ Len(replication_info) = unique_values
    /\ smartstack_replication_info' =
           Put(smartstack_replication_info, attribute, replication_info)
    /\ attribute' = "none"
    /\ unique_values' = 0
    /\ replication_info' = <<>>
    /\ pc' = "load_attributes"
    /\ UNCHANGED <<crit_threshold, discover, collect_i, location_types, types_left,
                   calls, failed, check_i, cur>>

(* ---------------------------------- main ------------------------------- *)

\* Lines 281, 316-318: the snapshot is returned and the checks begin.
StartChecks ==
    /\ pc = "load_attributes"
    /\ types_left = {}
    /\ pc' = "check"
    /\ UNCHANGED <<crit_threshold, discover, collect_i, location_types, types_left,
                   attribute, unique_values, replication_info,
                   smartstack_replication_info, calls, failed, check_i, cur>>

\* What is kept of the check of instance i: what the configuration holds for
\* it and what check_service_replication did.  Values the check never read
\* are left at 0 and FALSE.
Checked(i, outcome, expected_count, proxy_port, aliased, team, running, res) ==
    [inst |-> i,
     outcome |-> outcome,
     expected_count |-> IF outcome = "count" THEN expected_count ELSE 0,
     proxy_port |-> outcome = "count" /\ proxy_port,
     aliased |-> aliased,
     team |-> team,
     num_available |-> IF res.task_reads > 0 THEN running ELSE 0,
     res |-> res]

\* Line 326: smartstack_replication_info[discover_location_type]
SliceOf(i) == smartstack_replication_info[discover[i]]

\* No check is running.
NoCheck == Checked(0, "None", 0, FALSE, FALSE, FALSE, 0, NoResult)

\* Lines 318-328: one turn of the loop of main(), the whole check of an instance.
\* A value is drawn only where the check reads it (the namespace and the team
\* are drawn for every instance).
CheckServiceReplication ==
    /\ pc = "check"
    /\ \E outcome \in ExpectedOutcomes, aliased \in BOOLEAN, team \in BOOLEAN :
       \E expected_count \in IF outcome = "count" THEN ExpectedCounts ELSE {0},
          proxy_port \in IF outcome = "count" THEN BOOLEAN ELSE {FALSE} :
       \E running \in IF outcome = "count" /\ ~proxy_port THEN RunningCounts ELSE {0} :
         cur' = Checked(check_i, outcome, expected_count, proxy_port, aliased, team,
                        running,
                        check_service_replication(
                            check_i, SliceOf(check_i),
                            crit_threshold, outcome, expected_count, proxy_port,
                            aliased, team, running))
    /\ pc' = "checked"
    /\ UNCHANGED <<crit_threshold, discover, collect_i, location_types, types_left,
                   attribute, unique_values, replication_info,
                   smartstack_replication_info, calls, failed, check_i>>

\* Line 318: check_service_replication has returned and its locals are gone;
\* the loop takes the next instance, or main() returns after the last one.
NextInstance ==
    /\ pc = "checked"
    /\ cur' = NoCheck
    /\ check_i' = check_i + 1
    /\ pc' = IF check_i = NumInstances THEN "done" ELSE "check"
    /\ UNCHANGED <<crit_threshold, discover, collect_i, location_types, types_left,
                   attribute, unique_values, replication_info,
                   smartstack_replication_info, calls, failed>>

Init ==
    /\ crit_threshold \in Thresholds
    /\ discover \in [Instances -> LocationTypes]
    /\ pc = "load_types"
    /\ collect_i = 1
    /\ location_types = {}
    /\ types_left = {}
    /\ attribute = "none"
    /\ unique_values = 0
    /\ replication_info = <<>>
    /\ smartstack_replication_info = <<>>
    /\ calls = [t \in LocationTypes |-> 0]
    /\ failed = <<>>
    /\ check_i = 1
    /\ cur = NoCheck

Next ==
    \/ CollectLocationType
    \/ StartAttributes
    \/ GetReplicationForAttribute
    \/ QuerySynapse
    \/ QuerySynapseRaises
    \/ ReturnReplication
    \/ StartChecks
    \/ CheckServiceReplication
    \/ NextInstance

Spec == Init /\ [][Next]_vars

(* ------------------------------- the claims ---------------------------- *)

\* The check of an instance has just returned.
Returned == cur.inst # 0

\* The check computed a verdict for the instance.
Evaluated == cur.res.status # "none"

OnSmartstackPath == cur.res.path = "smartstack"

OnMesosPath == cur.res.path = "mesos"

CheckPhase == pc \in {"check", "checked", "done"}

\* The location types in use by the instances of the cluster.
UsedTypes == {discover[i] : i \in Instances}

\* C1: an instance whose namespace differs from its instance name gets no
\* event, on the Smartstack path and on the Mesos path alike.
C1_AliasedSendsNoEvent ==
    (Returned /\ cur.aliased) => cur.res.events = 0

\* C2, as claimed: an evaluated instance that expects 0 tasks has ratio 100 and
\* is never CRITICAL, whatever its slice of the snapshot holds, an empty slice
\* included.
C2_ZeroExpectedNeverCritical ==
    (Evaluated /\ cur.expected_count = 0) =>
        /\ cur.res.status = "OK"
        /\ \A l \in 1..Len(cur.res.ratios) : cur.res.ratios[l] = 100

\* C2, amended: an evaluated instance that expects 0 tasks has ratio 100 at
\* every ratio computed and is OK, on the Mesos path and on the Smartstack path
\* with a slice that is not empty; with an empty slice it is CRITICAL.
C2_ZeroExpectedOkUnlessNoInfo ==
    (Evaluated /\ cur.expected_count = 0) =>
        IF OnSmartstackPath /\ Len(SliceOf(cur.inst)) = 0
        THEN cur.res.status = "CRITICAL"
        ELSE /\ cur.res.status = "OK"
             /\ cur.res.ratio_calls >= 1
             /\ Len(cur.res.ratios) = cur.res.ratio_calls
             /\ \A l \in 1..Len(cur.res.ratios) : cur.res.ratios[l] = 100

C2_Witness ==
    /\ Evaluated /\ cur.expected_count = 0 /\ OnSmartstackPath
    /\ Len(SliceOf(cur.inst)) = 2
    /\ crit_threshold = 100
    /\ cur.res.status = "OK"

\* C3: without a team no event is sent, whatever the path and the verdict; with
\* a team exactly one event is sent for every evaluated instance.
C3_TeamGatesEvent ==
    Returned =>
        /\ ~cur.team => cur.res.events = 0
        /\ (cur.team /\ Evaluated) => cur.res.events = 1
        /\ ~Evaluated => cur.res.events = 0

C3_Witness ==
    /\ Returned /\ ~cur.team /\ OnSmartstackPath
    /\ cur.res.status = "CRITICAL"
    /\ cur.res.events = 0

\* C4: on the Smartstack path with N > 0 locations, the verdict is CRITICAL if
\* and only if a location has floor(expected / N) > 0 and
\* observed * 100 < threshold * floor(expected / N), observed being the entry
\* of the instance in the location or 0.
C4_CriticalIffSomeLocationBelow ==
    (OnSmartstackPath /\ Len(SliceOf(cur.inst)) > 0) =>
        LET info == SliceOf(cur.inst)
            per_location == cur.expected_count \div Len(info)
        IN  (cur.res.status = "CRITICAL") <=>
                \E l \in 1..Len(info) :
                    /\ per_location > 0
                    /\ Get(info[l], cur.inst, 0) * 100 < crit_threshold * per_location

\* C5: on the Smartstack path with no location at all, the verdict is CRITICAL
\* with the "no replication info" output, for every expected count and every
\* threshold, and neither the division nor a ratio is computed.
C5_NoInfoIsCritical ==
    (OnSmartstackPath /\ Len(SliceOf(cur.inst)) = 0) =>
        /\ cur.res.status = "CRITICAL"
        /\ cur.res.output = "no_info"
        /\ cur.res.divisions = 0
        /\ cur.res.ratio_calls = 0

C5_Witness ==
    /\ OnSmartstackPath /\ Len(SliceOf(cur.inst)) = 0
    /\ cur.expected_count = 0
    /\ crit_threshold = 0
    /\ cur.res.status = "CRITICAL"

\* C6: on the Mesos path the snapshot is not read and nothing is divided per
\* location; the verdict is CRITICAL if and only if expected > 0 and
\* running * 100 < threshold * expected.
C6_DirectCountRule ==
    OnMesosPath =>
        /\ cur.res.info_reads = 0
        /\ cur.res.divisions = 0
        /\ (cur.res.status = "CRITICAL") <=>
               /\ cur.expected_count > 0
               /\ cur.num_available * 100 < crit_threshold * cur.expected_count

\* C7: a Synapse query that fails does not end the run.
C7_FailedQueryDoesNotEndRun ==
    failed # <<>> => pc # "aborted"

\* C8: get_context is called once for every CRITICAL event that is sent, on
\* both paths, and never for an OK verdict or when no event is sent.
C8_ContextOncePerCriticalEvent ==
    Returned =>
        cur.res.context_calls =
            IF cur.res.status = "CRITICAL" /\ cur.res.events = 1 THEN 1 ELSE 0

C10_SnapshotBuiltOnceBeforeChecks ==
    /\ [](  /\ \A t \in LocationTypes :
                 /\ calls[t] <= 1
                 /\ calls[t] = 1 => t \in UsedTypes
            /\ CheckPhase =>
                 /\ \A t \in UsedTypes : calls[t] = 1
                 /\ DOMAIN smartstack_replication_info = UsedTypes
                 /\ attribute = "none"
            /\ Returned => CheckPhase /\ discover[cur.inst] \in DOMAIN smartstack_replication_info )
    /\ [][ CheckPhase =>
                /\ smartstack_replication_info' = smartstack_replication_info
                /\ calls' = calls
                /\ CheckPhase' ]_vars

C10_Witness ==
    /\ pc = "done"
    /\ calls["region"] = 1
    /\ calls["habitat"] = 0
    /\ Len(smartstack_replication_info["region"]) = 2

====
